---- MODULE Spec2Model ----
(***************************************************************************)
(* tensor.homes: the project / comment API over the Document Store         *)
(* (Prisma: User, Project, Comment) and the Thumbnail Store (Vercel Blob). *)
(* Every route handler is a sequence of awaited store calls; each awaited  *)
(* call is one atomic step, and handlers of different requests interleave  *)
(* between their steps.                                                    *)
(* The editor page of an existing project is a second process: its React   *)
(* state, its timers and its PATCH requests in flight; a state update, the *)
(* render it causes and the effects of that render are one atomic step.    *)
(***************************************************************************)
EXTENDS Integers, Sequences, FiniteSets, TLC

(* ------------------------------ bounds --------------------------------- *)
MaxProjects == 1    \* project ids ever allocated (cuid(): never reused)
MaxListed   == 2    \* the same, in the behaviours that list projects
MaxComments == 2    \* comment ids ever allocated
MaxClock    == 3    \* timestamps the database clock hands out after Init
MaxEdits    == 3    \* canvas and title changes made in one editing session
MaxClicks   == 1    \* Save and Publish clicks made in one editing session

(* --------------------------- value encoding ---------------------------- *)
\* A JavaScript string is a sequence of one-character strings; an optional
\* (possibly undefined / null) value v is <<>> when absent and <<v>> when
\* present.
Undefined == <<>>
Some(v)   == <<v>>

NoUser  == "null"                 \* auth() yields userId null
UserIds == {"u1", "u2"}
Callers == UserIds \cup {NoUser}

CommentIds == 1..MaxComments
NoUrl      == <<>>                \* thumbnailUrl null

RECURSIVE TrimStart(_)
TrimStart(s) == IF s # <<>> /\ Head(s) = " " THEN TrimStart(Tail(s)) ELSE s

RECURSIVE TrimEnd(_)
TrimEnd(s) == IF s # <<>> /\ s[Len(s)] = " "
              THEN TrimEnd(SubSeq(s, 1, Len(s) - 1)) ELSE s

\* String.prototype.trim
Trim(s) == TrimEnd(TrimStart(s))

\* JavaScript truthiness of an optional string: undefined, null and "" are falsy
Truthy(opt) == opt # Undefined /\ opt[1] # <<>>

(* ------------------------------ inputs --------------------------------- *)
Titles    == {<<"A">>}
Snapshots == {"s1"}
DataUrls  == {<<"d">>}
Contents  == {<<>>, <<" ">>, <<" ", "h", " ">>}

\* what currentUser() can report for a caller: emailAddresses[0]?.emailAddress,
\* firstName, lastName; an account need not have an email address or a name
ClerkProfiles(caller) ==
    { [email |-> Undefined, firstName |-> Undefined, lastName |-> Undefined],
      [email |-> Some(<<caller>>), firstName |-> Some(<<"N">>), lastName |-> Undefined] }

\* clerkUser?.emailAddresses[0]?.emailAddress || ""
userEmail(clerk) == IF Truthy(clerk.email) THEN clerk.email[1] ELSE <<>>

\* clerkUser?.firstName ? `${firstName} ${lastName || ""}`.trim() : null
userName(clerk) ==
    IF Truthy(clerk.firstName)
    THEN Some(Trim(clerk.firstName[1] \o <<" ">> \o
                   (IF Truthy(clerk.lastName) THEN clerk.lastName[1] ELSE <<>>)))
    ELSE Undefined

(* ------------------------------- state --------------------------------- *)
VARIABLES
    users,      \* Document Store, model User: id -> [email, name]
    projects,   \* Document Store, model Project: id -> row
    comments,   \* Document Store, model Comment: set of rows
    blobs,      \* Thumbnail Store: URLs of the objects it holds
    now,        \* database clock: the last timestamp handed out
    nextId,     \* project ids allocated so far (@default(cuid()))
    nextCid,    \* comment ids allocated so far (@default(cuid()))
    req,        \* request slot -> the handler invocation running in it
    resp,       \* the response being sent (op "none": no response is being sent)
    creator,    \* history: project id -> caller whose Create inserted it
    removed,    \* history: project ids whose row a Delete removed
    hidden,     \* history: project id -> when it was last unpublished, and the
                \*   comment rows it had then
    flipped,    \* history: the projects whose latest write was a TogglePublish
                \*   -> the published values stored before the last two of the
                \*   TogglePublish writes that no other write has followed
    parallel,   \* whether calls are handled concurrently in this behaviour
    faults,     \* the store calls that can fail in this behaviour: "none",
                \*   "thumbnail" (Thumbnail Store calls), "any" (Document Store
                \*   calls as well)
    cap,        \* how many project ids this behaviour allocates at most
    page,       \* EditorIdPage: its React state and refs
    canvas,     \* the document in editor.store: the number of changes made to it
    timers,     \* the pending setTimeout timers of the page
    nextTimer,  \* timer ids handed out so far
    fetches,    \* the PATCH requests of handleSave in flight
    elapsed,    \* seconds since the last document change, up to AutosaveDelay
    edits,      \* document changes made so far
    clicks,     \* Save and Publish clicks made so far
    failed,     \* history: an autosave has failed and no change was made since
    persisted   \* history: the title and document of the last save of the page
                \*   that was answered ok (before any: those fetchProject loads)

vars == <<users, projects, comments, blobs, now, nextId, nextCid, req, resp, creator,
          removed, hidden, flipped, parallel, faults, cap,
          page, canvas, timers, nextTimer, fetches, elapsed, edits, clicks, failed,
          persisted>>

\* the state of the server
server == <<users, projects, comments, blobs, now, nextId, nextCid, req, resp, creator,
            removed, hidden, flipped, parallel, faults, cap>>

\* the state of the editor page
client == <<page, canvas, timers, nextTimer, fetches, elapsed, edits, clicks, failed,
            persisted>>

store == <<users, projects, comments, blobs, now, nextId, nextCid, creator, removed, hidden,
           flipped>>

ProjectIds == 1..cap    \* the project ids a behaviour can allocate

\* Handlers run one per incoming call; the second slot is used when calls are
\* handled concurrently, which gives every pairwise interleaving of the store
\* calls of two requests.
Reqs == {"r1", "r2"}

\* random suffix `put` may append to the pathname ("" when it appends none)
Suffixes == {"", "x"}

\* a JSON body: the fields the handlers destructure, and userId, which none does;
\* search is the query parameter of the same name, which only the List reads
NoBody == [title |-> Undefined, snapshot |-> Undefined, published |-> Undefined,
           thumbnailDataUrl |-> Undefined, content |-> Undefined, userId |-> Undefined,
           search |-> Undefined]

\* a slot no handler runs in
Idle == [op |-> "none", pc |-> "idle", caller |-> NoUser, id |-> 0, body |-> NoBody,
         existing |-> Undefined,      \* what the handler keeps of the row it read / created
         thumbnailUrl |-> NoUrl,      \* the handler's local thumbnailUrl
         delTried |-> FALSE,          \* deleteThumbnail was called
         thumbFailed |-> FALSE,       \* a Thumbnail Store call failed
         status |-> 0, data |-> Undefined]

Invoke(op, caller, id, body) ==
    [Idle EXCEPT !.op = op, !.pc = "start", !.caller = caller, !.id = id, !.body = body]

\* the fields of the row findUnique returned that PATCH, DELETE and the publish
\* handler read again after their ownership check
kept(row) == Some([thumbnailUrl |-> row.thumbnailUrl, published |-> row.published])

\* NextResponse.json(data, { status })
Respond(q, status, data) == [q EXCEPT !.pc = "done", !.status = status, !.data = Some(data)]

\* a new call is handled in the first slot that is free
Accept(r) == /\ resp = Idle
             /\ req[r].pc = "idle"
             /\ r = "r2" => parallel /\ req["r1"].pc # "idle"

\* the handler in slot r is about to make the store call pc
At(r, op, pc) == resp = Idle /\ req[r].op = op /\ req[r].pc = pc

\* the handler in slot r moves on to its next store call / returns its response
Goto(r, q)   == req' = [req EXCEPT ![r] = q] /\ UNCHANGED <<resp, parallel, faults, cap, client>>
Return(r, q) == /\ req' = [req EXCEPT ![r] = Idle] /\ resp' = q
                /\ UNCHANGED <<parallel, faults, cap, client>>

\* a fresh deployment: both stores empty
Empty ==
    /\ users = << >>
    /\ projects = << >>
    /\ comments = {}
    /\ blobs = {}
    /\ nextId = 0
    /\ creator = << >>

\* a deployment in use: u1 has created project 1 with a thumbnail (Create,
\* upload, thumbnailUrl update) and published it (TogglePublish); the three
\* writes were stamped before the behaviour's time 0
Seeded ==
    /\ users = ("u1" :> [email |-> <<"u1">>, name |-> Some(<<"N">>)])
    /\ projects = (1 :> [id |-> 1, title |-> <<"A">>, snapshot |-> "s1",
                         thumbnailUrl |-> <<1, "">>, published |-> TRUE,
                         userId |-> "u1", createdAt |-> -2, updatedAt |-> 0])
    /\ comments = {}
    /\ blobs = {<<1, "">>}
    /\ nextId = 1
    /\ creator = (1 :> "u1")

\* the same deployment after u2 has commented on project 1 at time 1
Commented ==
    /\ users = ("u1" :> [email |-> <<"u1">>, name |-> Some(<<"N">>)]) @@
               ("u2" :> [email |-> <<"u2">>, name |-> Some(<<"N">>)])
    /\ projects = (1 :> [id |-> 1, title |-> <<"A">>, snapshot |-> "s1",
                         thumbnailUrl |-> <<1, "">>, published |-> TRUE,
                         userId |-> "u1", createdAt |-> -2, updatedAt |-> 0])
    /\ comments = {[id |-> 1, content |-> <<"h">>, projectId |-> 1, userId |-> "u2",
                    createdAt |-> 1]}
    /\ blobs = {<<1, "">>}
    /\ nextId = 1
    /\ creator = (1 :> "u1")

\* no call is being handled
Quiet ==
    /\ req = [r \in Reqs |-> Idle]
    /\ resp = Idle
    /\ removed = {}
    /\ hidden = << >>
    /\ flipped = << >>

\* setTimeout(..., 5000), in seconds
AutosaveDelay == 5

\* the useState and useRef initial values; project counts the objects
\* setProject was given (0: null), title the texts typed into the input,
\* autoSaveTimerRef holds a timer id (0: null)
NoPage == [mounted |-> FALSE, loading |-> TRUE, project |-> 0, title |-> 0,
           hasUnsavedChanges |-> FALSE, saving |-> FALSE, editorRef |-> FALSE,
           autoSaveTimerRef |-> 0]

\* an editor page with nothing done in it yet
Fresh ==
    /\ canvas = 0 /\ timers = {} /\ nextTimer = 0 /\ fetches = {}
    /\ elapsed = AutosaveDelay /\ edits = 0 /\ clicks = 0 /\ failed = FALSE
    /\ persisted = [title |-> 0, snapshot |-> 0]

\* no editor page is open
Closed == page = NoPage /\ Fresh

Init ==
    /\ (Empty \/ Seeded) /\ now = 0 /\ nextCid = 0
    /\ Quiet /\ parallel = FALSE /\ faults = "thumbnail" /\ cap = MaxProjects /\ Closed

InitParallel ==
    /\ Commented /\ now = 1 /\ nextCid = 1
    /\ Quiet /\ parallel = TRUE /\ faults = "thumbnail" /\ cap = MaxProjects /\ Closed

(* ------------------------- Document Store calls ------------------------ *)
\* prisma.project.findUnique({ where: { id } }): the row, or null
findUnique(id) == IF id \in DOMAIN projects THEN Some(projects[id]) ELSE Undefined

\* model User: email String @unique
emailTaken(id, email) ==
    \E u \in DOMAIN users : u # id /\ users[u].email = email

\* prisma.user.update in place of the upsert: an unknown user gets no row
upsert_updateOnly(id, email, name) ==
    IF id \in DOMAIN users THEN (id :> [email |-> email, name |-> name]) @@ users ELSE users

\* prisma.user.upsert({ where: { id }, update: {email, name}, create: {id, email, name} })
upsert(id, email, name) == (id :> [email |-> email, name |-> name]) @@ users

\* the schema default of published set to true
newProject_published(id, title, snapshot, userId, t) ==
    [id |-> id, title |-> title, snapshot |-> snapshot, thumbnailUrl |-> NoUrl,
     published |-> TRUE, userId |-> userId, createdAt |-> t, updatedAt |-> t]

\* prisma.project.create({ data: { title, snapshot, userId } }) with the
\* schema defaults: thumbnailUrl null, published false, both stamps now()
newProject(id, title, snapshot, userId, t) ==
    [id |-> id, title |-> title, snapshot |-> snapshot, thumbnailUrl |-> NoUrl,
     published |-> FALSE, userId |-> userId, createdAt |-> t, updatedAt |-> t]

\* prisma.project.update({ where: { id }, data }): data is a set of
\* <<field, value>> pairs; @updatedAt stamps the row on every update
RECURSIVE applyData(_, _)
applyData(row, data) ==
    IF data = {} THEN row
    ELSE LET d == CHOOSE x \in data : TRUE
         IN  applyData([row EXCEPT ![d[1]] = d[2]], data \ {d})

\* the column without @updatedAt
updateRow_unstamped(row, data, t) == applyData(row, data)

updateRow(row, data, t) == [applyData(row, data) EXCEPT !.updatedAt = t]

\* history kept beside any other write of project id, and beside its removal
unflip(id) == [p \in DOMAIN flipped \ {id} |-> flipped[p]]

\* prisma.project.delete({ where: { id } }); Comment.project is onDelete: Cascade
deleteRow(id) == [p \in DOMAIN projects \ {id} |-> projects[p]]

\* the relation without onDelete: Cascade
cascade_none(id) == comments

cascade(id)   == { c \in comments : c.projectId # id }

\* ProjectMetadata of POST /api/projects: the created row with the local thumbnailUrl
metadata(project, thumbnailUrl) ==
    [id |-> project.id, title |-> project.title, thumbnailUrl |-> thumbnailUrl,
     published |-> project.published, createdAt |-> project.createdAt,
     updatedAt |-> project.updatedAt]

\* ProjectWithSnapshot of GET and PATCH /api/projects/[id]
withSnapshot(project) ==
    [id |-> project.id, title |-> project.title, snapshot |-> project.snapshot,
     thumbnailUrl |-> project.thumbnailUrl, published |-> project.published,
     createdAt |-> project.createdAt, updatedAt |-> project.updatedAt]

\* whether the awaited Document Store call of a step throws (the database
\* cannot be reached, the query times out)
Throws == IF faults = "any" THEN BOOLEAN ELSE {FALSE}

(* ------------------------ Thumbnail Store calls ------------------------ *)
\* put(`thumbnails/${projectId}.png`, blob, ...): the URLs a successful
\* upload can return; it never returns the URL of an object already held
putUrls(projectId) == { u \in {<<projectId, s>> : s \in Suffixes} : u \notin blobs }

\* del(thumbnailUrl) when it succeeds
del(url) == blobs \ {url}

(* ----------------------- POST /api/projects (Create) ------------------- *)
\* An input is drawn where the handler first reads it: a request that is
\* answered before a field is looked at carries no value for it.
CreateFields ==
    { [NoBody EXCEPT !.title = t, !.snapshot = s] :
        t \in {Undefined, Some(<<>>)} \cup {Some(x) : x \in Titles},
        s \in {Undefined} \cup {Some(x) : x \in Snapshots} }

ThumbnailFields == {Undefined} \cup {Some(x) : x \in DataUrls}

\* the validation without its snapshot half
missingFields_titleOnly(body) == ~Truthy(body.title)

\* if (!title || !snapshot)
missingFields(body) == ~Truthy(body.title) \/ body.snapshot = Undefined

\* auth(), body validation, currentUser() and prisma.user.upsert
projects_POST(r) ==
    /\ Accept(r)
    /\ \E caller \in Callers :
         LET q0 == Invoke("projects.POST", caller, 0, NoBody) IN
         IF caller = NoUser
         THEN Return(r, Respond(q0, 401, "Unauthorized")) /\ UNCHANGED store
         ELSE \E body \in CreateFields :
              LET q == [q0 EXCEPT !.body = body] IN
              IF missingFields(body)
              THEN Return(r, Respond(q, 400, "Missing required fields")) /\ UNCHANGED store
              ELSE \E clerk \in ClerkProfiles(caller), throws \in Throws :
                   IF emailTaken(caller, userEmail(clerk)) \/ throws
                   THEN /\ Return(r, Respond(q, 500, "Failed to create project"))
                        /\ UNCHANGED store
                   ELSE /\ users' = upsert(caller, userEmail(clerk), userName(clerk))
                        /\ Goto(r, [q EXCEPT !.pc = "create"])
                        /\ UNCHANGED <<projects, comments, blobs, now, nextId, nextCid,
                                       creator, removed, hidden, flipped>>

\* prisma.project.create
projects_POST_create(r) ==
    LET q == req[r] IN
    /\ At(r, "projects.POST", "create")
    /\ nextId < cap /\ now < MaxClock
    /\ \E thumbnailDataUrl \in ThumbnailFields, throws \in Throws :
       LET project == newProject(nextId + 1, q.body.title[1], q.body.snapshot[1],
                                 q.caller, now + 1)
           q1 == [q EXCEPT !.existing = Some(project), !.id = project.id,
                           !.body.thumbnailDataUrl = thumbnailDataUrl]
       IN IF throws
          THEN /\ Return(r, Respond(q, 500, "Failed to create project"))
               /\ UNCHANGED <<projects, creator, nextId, now>>
          ELSE /\ projects' = (project.id :> project) @@ projects
               /\ creator' = (project.id :> q.caller) @@ creator
               /\ nextId' = nextId + 1
               /\ now' = now + 1
               /\ IF Truthy(thumbnailDataUrl)
                  THEN Goto(r, [q1 EXCEPT !.pc = "uploadThumbnail"])
                  ELSE Return(r, Respond(q1, 201, metadata(project, NoUrl)))
    /\ UNCHANGED <<users, comments, blobs, nextCid, removed, hidden, flipped>>

\* uploadThumbnail inside the try block; a throw is logged and swallowed
projects_POST_uploadThumbnail(r) ==
    LET q == req[r] IN
    /\ At(r, "projects.POST", "uploadThumbnail")
    /\ \/ \E url \in putUrls(q.id) :
            /\ blobs' = blobs \cup {url}
            /\ Goto(r, [q EXCEPT !.thumbnailUrl = url, !.pc = "update"])
       \/ /\ faults # "none"
          /\ blobs' = blobs
          /\ Return(r, Respond([q EXCEPT !.thumbFailed = TRUE], 201,
                               metadata(q.existing[1], NoUrl)))
    /\ UNCHANGED <<users, projects, comments, now, nextId, nextCid, creator, removed, hidden, flipped>>

\* prisma.project.update({ data: { thumbnailUrl } }) inside the same try
\* block: a throw (the row is gone, the call fails) is swallowed too, after
\* the local thumbnailUrl was assigned
projects_POST_update(r) ==
    LET q == req[r] IN
    /\ At(r, "projects.POST", "update")
    /\ \E throws \in Throws :
       IF q.id \in DOMAIN projects /\ ~throws
       THEN /\ now < MaxClock
            /\ projects' = [projects EXCEPT ![q.id] =
                              updateRow(@, {<<"thumbnailUrl", q.thumbnailUrl>>}, now + 1)]
            /\ now' = now + 1
       ELSE UNCHANGED <<projects, now>>
    /\ flipped' = unflip(q.id)
    /\ Return(r, Respond(q, 201, metadata(q.existing[1], q.thumbnailUrl)))
    /\ UNCHANGED <<users, comments, blobs, nextId, nextCid, creator, removed, hidden>>

(* --------------------------- GET /api/projects (List) ------------------ *)
\* searchParams.get("search"): absent, empty, or a term
SearchTerms == {Undefined, Some(<<>>), Some(<<"a">>), Some(<<"b">>), Some(<<"A", "b">>)}

\* the case folding of mode: "insensitive", over the letters titles are made of
toLowerCase(c) == CASE c = "A" -> "a" [] c = "B" -> "b" [] OTHER -> c

lower(s) == [i \in 1..Len(s) |-> toLowerCase(s[i])]

\* the filter comparing the cases as written
contains_caseSensitive(title, search) ==
    \E i \in 1..(Len(title) - Len(search) + 1) :
        SubSeq(title, i, i + Len(search) - 1) = search

\* title: { contains: search, mode: "insensitive" }
contains(title, search) ==
    \E i \in 1..(Len(title) - Len(search) + 1) :
        SubSeq(lower(title), i, i + Len(search) - 1) = lower(search)

\* where: { userId, ...(search && { title: { contains: search, mode: "insensitive" } }) }
where(userId, search) ==
    { p \in DOMAIN projects :
        /\ projects[p].userId = userId
        /\ Truthy(search) => contains(projects[p].title, search[1]) }

\* orderBy: { updatedAt: "desc" }
RECURSIVE orderByUpdatedAt(_)
orderByUpdatedAt(ids) ==
    IF ids = {} THEN <<>>
    ELSE LET first == CHOOSE p \in ids :
                          \A o \in ids : projects[p].updatedAt >= projects[o].updatedAt
         IN  <<first>> \o orderByUpdatedAt(ids \ {first})

\* prisma.project.findMany({ where, select, orderBy }): the select names the
\* fields of ProjectMetadata, snapshot is not among them
findManyProjects(userId, search) ==
    LET ids == orderByUpdatedAt(where(userId, search))
    IN  [i \in 1..Len(ids) |-> metadata(projects[ids[i]], projects[ids[i]].thumbnailUrl)]

\* auth, then the one findMany
projects_GET(r) ==
    /\ Accept(r)
    /\ \E caller \in Callers, search \in SearchTerms :
         LET q == Invoke("projects.GET", caller, 0, [NoBody EXCEPT !.search = search])
         IN IF caller = NoUser
            THEN Return(r, Respond(q, 401, "Unauthorized"))
            ELSE Return(r, Respond(q, 200, findManyProjects(caller, search)))
    /\ UNCHANGED store

(* ----------------------- GET /api/projects/[id] (Get) ------------------ *)
\* the check without its ownership half: the owner is refused as well
forbiddenToRead_publishedOnly(project, userId) == ~project.published

\* if (project.userId !== userId && !project.published) -> 403
forbiddenToRead(project, userId) == project.userId # userId /\ ~project.published

project_GET(r) ==
    /\ Accept(r)
    /\ \E caller \in Callers, id \in ProjectIds :
         LET q == Invoke("project.GET", caller, id, NoBody)
             project == findUnique(id)
         IN IF project = Undefined
            THEN Return(r, Respond(q, 404, "Project not found"))
            ELSE IF forbiddenToRead(project[1], caller)
            THEN Return(r, Respond(q, 403, "Forbidden"))
            ELSE Return(r, Respond(q, 200, withSnapshot(project[1])))
    /\ UNCHANGED store

(* ---------------------- PATCH /api/projects/[id] (Update) -------------- *)
\* history kept beside a write of the published flag: when the write takes the
\* project from published to unpublished, remember the write's timestamp and
\* the comment rows the project has at that moment
hide(before, after) ==
    IF before.published /\ ~after.published
    THEN (after.id :> [at |-> after.updatedAt,
                       rows |-> {c \in comments : c.projectId = after.id}]) @@ hidden
    ELSE hidden

\* the bodies clients send (autosave: title and snapshot; manual save: with
\* thumbnailDataUrl), every single-field body, and a body naming another owner
PatchFields ==
    LET t == Some(<<"a", "B">>)  s == Some("s2")  d == Some(<<"d">>) IN
    { NoBody,
      [NoBody EXCEPT !.title = t],
      [NoBody EXCEPT !.snapshot = s],
      [NoBody EXCEPT !.published = Some(TRUE)],
      [NoBody EXCEPT !.published = Some(FALSE)],
      [NoBody EXCEPT !.thumbnailDataUrl = d],
      [NoBody EXCEPT !.userId = Some("u2")],
      [NoBody EXCEPT !.title = t, !.snapshot = s],
      [NoBody EXCEPT !.title = t, !.snapshot = s, !.thumbnailDataUrl = d] }

\* the ownership check left out
notOwner_unchecked(project, userId) == FALSE

\* if (existingProject.userId !== userId) -> 403
notOwner(project, userId) == project.userId # userId

\* updateData with published defaulted to false when the body leaves it out
updateData_defaultsPublished(body, url) ==
    (IF body.title # Undefined THEN {<<"title", body.title[1]>>} ELSE {})
    \cup (IF body.snapshot # Undefined THEN {<<"snapshot", body.snapshot[1]>>} ELSE {})
    \cup {<<"published", IF body.published # Undefined THEN body.published[1] ELSE FALSE>>}
    \cup (IF url # NoUrl THEN {<<"thumbnailUrl", url>>} ELSE {})

\* updateData that writes the snapshot whether or not the body defines it
updateData_writesSnapshot(body, url) ==
    (IF body.title # Undefined THEN {<<"title", body.title[1]>>} ELSE {})
    \cup {<<"snapshot", IF body.snapshot # Undefined THEN body.snapshot[1] ELSE "null">>}
    \cup (IF body.published # Undefined THEN {<<"published", body.published[1]>>} ELSE {})
    \cup (IF url # NoUrl THEN {<<"thumbnailUrl", url>>} ELSE {})

\* updateData built from the whole body instead of the destructured fields
updateData_wholeBody(body, url) ==
    (IF body.title # Undefined THEN {<<"title", body.title[1]>>} ELSE {})
    \cup (IF body.snapshot # Undefined THEN {<<"snapshot", body.snapshot[1]>>} ELSE {})
    \cup (IF body.published # Undefined THEN {<<"published", body.published[1]>>} ELSE {})
    \cup (IF body.userId # Undefined THEN {<<"userId", body.userId[1]>>} ELSE {})
    \cup (IF url # NoUrl THEN {<<"thumbnailUrl", url>>} ELSE {})

\* updateData: only the fields the body defines, and thumbnailUrl when the
\* upload returned one (url = NoUrl: it did not)
updateData(body, url) ==
    (IF body.title # Undefined THEN {<<"title", body.title[1]>>} ELSE {})
    \cup (IF body.snapshot # Undefined THEN {<<"snapshot", body.snapshot[1]>>} ELSE {})
    \cup (IF body.published # Undefined THEN {<<"published", body.published[1]>>} ELSE {})
    \cup (IF url # NoUrl THEN {<<"thumbnailUrl", url>>} ELSE {})

\* auth(), prisma.project.findUnique, ownership check
project_PATCH(r) ==
    /\ Accept(r)
    /\ \E caller \in Callers, id \in ProjectIds, throws \in Throws :
         LET q == Invoke("project.PATCH", caller, id, NoBody)
             existingProject == findUnique(id)
         IN IF caller = NoUser
            THEN Return(r, Respond(q, 401, "Unauthorized"))
            ELSE IF throws
            THEN Return(r, Respond(q, 500, "Failed to update project"))
            ELSE IF existingProject = Undefined
            THEN Return(r, Respond(q, 404, "Project not found"))
            ELSE IF notOwner(existingProject[1], caller)
            THEN Return(r, Respond(q, 403, "Forbidden"))
            ELSE \E body \in PatchFields :
                 Goto(r, [q EXCEPT !.body = body, !.existing = kept(existingProject[1]),
                            !.pc = IF ~Truthy(body.thumbnailDataUrl) THEN "update"
                                   ELSE IF existingProject[1].thumbnailUrl # NoUrl
                                        THEN "deleteThumbnail" ELSE "uploadThumbnail"])
    /\ UNCHANGED store

\* deleteThumbnail(existingProject.thumbnailUrl): it catches del's failure itself
project_PATCH_deleteThumbnail(r) ==
    LET q == req[r] IN
    /\ At(r, "project.PATCH", "deleteThumbnail")
    /\ \/ /\ blobs' = del(q.existing[1].thumbnailUrl)
          /\ Goto(r, [q EXCEPT !.delTried = TRUE, !.pc = "uploadThumbnail"])
       \/ /\ faults # "none"
          /\ blobs' = blobs
          /\ Goto(r, [q EXCEPT !.delTried = TRUE, !.thumbFailed = TRUE,
                               !.pc = "uploadThumbnail"])
    /\ UNCHANGED <<users, projects, comments, now, nextId, nextCid, creator, removed, hidden, flipped>>

\* uploadThumbnail outside the try block: its throw reaches the outer catch
project_PATCH_uploadThumbnail_uncaught(r) ==
    LET q == req[r] IN
    /\ At(r, "project.PATCH", "uploadThumbnail")
    /\ \/ \E url \in putUrls(q.id) :
            /\ blobs' = blobs \cup {url}
            /\ Goto(r, [q EXCEPT !.thumbnailUrl = url, !.pc = "update"])
       \/ /\ faults # "none"
          /\ blobs' = blobs
          /\ Return(r, Respond([q EXCEPT !.thumbFailed = TRUE], 500,
                               "Failed to update project"))
    /\ UNCHANGED <<users, projects, comments, now, nextId, nextCid, creator, removed, hidden, flipped>>

\* uploadThumbnail(thumbnailDataUrl, id); a throw is logged and the update goes on
project_PATCH_uploadThumbnail(r) ==
    LET q == req[r] IN
    /\ At(r, "project.PATCH", "uploadThumbnail")
    /\ \/ \E url \in putUrls(q.id) :
            /\ blobs' = blobs \cup {url}
            /\ Goto(r, [q EXCEPT !.thumbnailUrl = url, !.pc = "update"])
       \/ /\ faults # "none"
          /\ blobs' = blobs
          /\ Goto(r, [q EXCEPT !.thumbFailed = TRUE, !.pc = "update"])
    /\ UNCHANGED <<users, projects, comments, now, nextId, nextCid, creator, removed, hidden, flipped>>

\* prisma.project.update({ where: { id }, data: updateData }); it throws when
\* the row is gone or the call fails and the outer catch answers 500
project_PATCH_update(r) ==
    LET q == req[r] IN
    /\ At(r, "project.PATCH", "update")
    /\ \E throws \in Throws :
       IF q.id \in DOMAIN projects /\ ~throws
       THEN LET project == updateRow(projects[q.id], updateData(q.body, q.thumbnailUrl),
                                     now + 1)
            IN /\ now < MaxClock
               /\ projects' = [projects EXCEPT ![q.id] = project]
               /\ now' = now + 1
               /\ hidden' = hide(projects[q.id], project)
               /\ Return(r, Respond(q, 200, withSnapshot(project)))
       ELSE /\ UNCHANGED <<projects, now, hidden>>
            /\ Return(r, Respond(q, 500, "Failed to update project"))
    /\ flipped' = unflip(q.id)
    /\ UNCHANGED <<users, comments, blobs, nextId, nextCid, creator, removed>>

(* --------------------- DELETE /api/projects/[id] (Delete) -------------- *)
\* auth(), prisma.project.findUnique, ownership check
project_DELETE(r) ==
    /\ Accept(r)
    /\ \E caller \in Callers, id \in ProjectIds, throws \in Throws :
         LET q == Invoke("project.DELETE", caller, id, NoBody)
             project == findUnique(id)
         IN IF caller = NoUser
            THEN Return(r, Respond(q, 401, "Unauthorized"))
            ELSE IF throws
            THEN Return(r, Respond(q, 500, "Failed to delete project"))
            ELSE IF project = Undefined
            THEN Return(r, Respond(q, 404, "Project not found"))
            ELSE IF notOwner(project[1], caller)
            THEN Return(r, Respond(q, 403, "Forbidden"))
            ELSE Goto(r, [q EXCEPT !.existing = kept(project[1]),
                            !.pc = IF project[1].thumbnailUrl # NoUrl
                                   THEN "deleteThumbnail" ELSE "delete"])
    /\ UNCHANGED store

\* deleteThumbnail(project.thumbnailUrl): it catches del's failure itself
project_DELETE_deleteThumbnail(r) ==
    LET q == req[r] IN
    /\ At(r, "project.DELETE", "deleteThumbnail")
    /\ \/ /\ blobs' = del(q.existing[1].thumbnailUrl)
          /\ Goto(r, [q EXCEPT !.delTried = TRUE, !.pc = "delete"])
       \/ /\ faults # "none"
          /\ blobs' = blobs
          /\ Goto(r, [q EXCEPT !.delTried = TRUE, !.thumbFailed = TRUE, !.pc = "delete"])
    /\ UNCHANGED <<users, projects, comments, now, nextId, nextCid, creator, removed, hidden, flipped>>

\* prisma.project.delete({ where: { id } }); it throws when the row is gone
\* or the call fails
project_DELETE_delete(r) ==
    LET q == req[r] IN
    /\ At(r, "project.DELETE", "delete")
    /\ \E throws \in Throws :
       IF q.id \in DOMAIN projects /\ ~throws
       THEN /\ projects' = deleteRow(q.id)
            /\ comments' = cascade(q.id)
            /\ removed' = removed \cup {q.id}
            /\ Return(r, Respond(q, 200, "success"))
       ELSE /\ UNCHANGED <<projects, comments, removed>>
            /\ Return(r, Respond(q, 500, "Failed to delete project"))
    /\ flipped' = unflip(q.id)
    /\ UNCHANGED <<users, blobs, now, nextId, nextCid, creator, hidden>>

(* ----------------- POST /api/projects/[id]/publish (TogglePublish) ----- *)
\* history kept beside the write of a TogglePublish: the published value the
\* row had before it, after the one before the previous TogglePublish write
\* when no other write came in between
flip(before, after) ==
    LET earlier == IF after.id \in DOMAIN flipped
                   THEN <<flipped[after.id][Len(flipped[after.id])]>> ELSE << >>
    IN  (after.id :> earlier \o <<before.published>>) @@ flipped

\* the toggle written as a constant
toggled_publishes(existingProject) == {<<"published", TRUE>>}

\* data: { published: !existingProject.published }
toggled(existingProject) == {<<"published", ~existingProject.published>>}

\* auth(), prisma.project.findUnique, ownership check
publish_POST(r) ==
    /\ Accept(r)
    /\ \E caller \in Callers, id \in ProjectIds :
         LET q == Invoke("publish.POST", caller, id, NoBody)
             existingProject == findUnique(id)
         IN IF caller = NoUser
            THEN Return(r, Respond(q, 401, "Unauthorized"))
            ELSE IF existingProject = Undefined
            THEN Return(r, Respond(q, 404, "Project not found"))
            ELSE IF notOwner(existingProject[1], caller)
            THEN Return(r, Respond(q, 403, "Forbidden"))
            ELSE Goto(r, [q EXCEPT !.existing = kept(existingProject[1]), !.pc = "update"])
    /\ UNCHANGED store

\* the toggle with a purge: unpublishing also deletes the project's comments
publish_POST_update_purge(r) ==
    LET q == req[r] IN
    /\ At(r, "publish.POST", "update")
    /\ IF q.id \in DOMAIN projects
       THEN LET project == updateRow(projects[q.id], toggled(q.existing[1]), now + 1)
            IN /\ now < MaxClock
               /\ projects' = [projects EXCEPT ![q.id] = project]
               /\ now' = now + 1
               /\ hidden' = hide(projects[q.id], project)
               /\ flipped' = flip(projects[q.id], project)
               /\ comments' = IF project.published THEN comments ELSE cascade(q.id)
               /\ Return(r, Respond(q, 200, [id |-> project.id,
                                             published |-> project.published]))
       ELSE /\ UNCHANGED <<projects, now, hidden, flipped, comments>>
            /\ Return(r, Respond(q, 500, "Failed to toggle publish status"))
    /\ UNCHANGED <<users, blobs, nextId, nextCid, creator, removed>>

\* prisma.project.update({ where: { id }, data: { published: !existingProject.published } })
publish_POST_update(r) ==
    LET q == req[r] IN
    /\ At(r, "publish.POST", "update")
    /\ IF q.id \in DOMAIN projects
       THEN LET project == updateRow(projects[q.id], toggled(q.existing[1]), now + 1)
            IN /\ now < MaxClock
               /\ projects' = [projects EXCEPT ![q.id] = project]
               /\ now' = now + 1
               /\ hidden' = hide(projects[q.id], project)
               /\ flipped' = flip(projects[q.id], project)
               /\ Return(r, Respond(q, 200, [id |-> project.id,
                                             published |-> project.published]))
       ELSE /\ UNCHANGED <<projects, now, hidden, flipped>>
            /\ Return(r, Respond(q, 500, "Failed to toggle publish status"))
    /\ UNCHANGED <<users, comments, blobs, nextId, nextCid, creator, removed>>

(* ----------------------- POST /api/comments (Comment Create) ----------- *)
\* body.projectId: 0 stands for a missing projectId
CommentFields ==
    { [NoBody EXCEPT !.content = c] : c \in {Undefined} \cup {Some(x) : x \in Contents} }

\* if (!projectId || !content?.trim())
missingComment(projectId, body) ==
    projectId = 0 \/ body.content = Undefined \/ Trim(body.content[1]) = <<>>

\* select: { id, name, email } of the comment's user
userSummary(table, userId) ==
    [id |-> userId, name |-> table[userId].name, email |-> table[userId].email]

\* CommentWithUser
commentWithUser(comment, table) ==
    [id |-> comment.id, content |-> comment.content, createdAt |-> comment.createdAt,
     user |-> userSummary(table, comment.userId)]

\* the published check left out
cannotComment_never(project) == FALSE

\* if (!project.published) -> 403 "Cannot comment on unpublished project"
cannotComment(project) == ~project.published

\* auth(), body validation, prisma.project.findUnique, published check
comments_POST(r) ==
    /\ Accept(r)
    /\ \E caller \in Callers :
         LET q0 == Invoke("comments.POST", caller, 0, NoBody) IN
         IF caller = NoUser
         THEN Return(r, Respond(q0, 401, "Unauthorized"))
         ELSE \E projectId \in {0} \cup ProjectIds, body \in CommentFields :
              LET q == [q0 EXCEPT !.id = projectId, !.body = body]
                  project == findUnique(projectId)
              IN IF missingComment(projectId, body)
                 THEN Return(r, Respond(q, 400, "Missing required fields"))
                 ELSE IF project = Undefined
                 THEN Return(r, Respond(q, 404, "Project not found"))
                 ELSE IF cannotComment(project[1])
                 THEN Return(r, Respond(q, 403, "Cannot comment on unpublished project"))
                 ELSE Goto(r, [q EXCEPT !.pc = "upsert"])
    /\ UNCHANGED store

\* currentUser() and prisma.user.upsert; a unique-constraint throw answers 500
comments_POST_upsert(r) ==
    LET q == req[r] IN
    /\ At(r, "comments.POST", "upsert")
    /\ \E clerk \in ClerkProfiles(q.caller) :
         IF emailTaken(q.caller, userEmail(clerk))
         THEN /\ Return(r, Respond(q, 500, "Failed to create comment"))
              /\ UNCHANGED users
         ELSE /\ users' = upsert(q.caller, userEmail(clerk), userName(clerk))
              /\ Goto(r, [q EXCEPT !.pc = "create"])
    /\ UNCHANGED <<projects, comments, blobs, now, nextId, nextCid, creator, removed, hidden, flipped>>

\* prisma.comment.create({ data: { content: content.trim(), projectId, userId } });
\* the foreign key to Project makes it throw when the project row is gone
comments_POST_create(r) ==
    LET q == req[r] IN
    /\ At(r, "comments.POST", "create")
    /\ IF q.id \in DOMAIN projects
       THEN LET comment == [id |-> nextCid + 1, content |-> Trim(q.body.content[1]),
                            projectId |-> q.id, userId |-> q.caller,
                            createdAt |-> now + 1]
            IN /\ nextCid < MaxComments /\ now < MaxClock
               /\ comments' = comments \cup {comment}
               /\ nextCid' = nextCid + 1
               /\ now' = now + 1
               /\ Return(r, Respond(q, 201, commentWithUser(comment, users)))
       ELSE /\ UNCHANGED <<comments, nextCid, now>>
            /\ Return(r, Respond(q, 500, "Failed to create comment"))
    /\ UNCHANGED <<users, projects, blobs, nextId, creator, removed, hidden, flipped>>

(* -------------------- GET /api/comments/[projectId] (Comment List) ----- *)
\* orderBy: { createdAt: "desc" }
RECURSIVE orderByCreatedAt_desc(_)
orderByCreatedAt_desc(rows) ==
    IF rows = {} THEN <<>>
    ELSE LET first == CHOOSE c \in rows : \A d \in rows : c.createdAt >= d.createdAt
         IN  <<first>> \o orderByCreatedAt_desc(rows \ {first})

\* orderBy: { createdAt: "asc" }
RECURSIVE orderByCreatedAt(_)
orderByCreatedAt(rows) ==
    IF rows = {} THEN <<>>
    ELSE LET first == CHOOSE c \in rows : \A d \in rows : c.createdAt <= d.createdAt
         IN  <<first>> \o orderByCreatedAt(rows \ {first})

\* prisma.comment.findMany({ where: { projectId }, include: { user }, orderBy })
\* mapped to CommentWithUser[]
findMany(projectId) ==
    LET rows == orderByCreatedAt({ c \in comments : c.projectId = projectId })
    IN  [i \in 1..Len(rows) |-> commentWithUser(rows[i], users)]

\* the published check left out of the read path
notPublished_never(project) == FALSE

\* if (!project.published) -> 403 "Project is not published"
notPublished(project) == ~project.published

\* prisma.project.findUnique, published check; the handler never calls auth()
comments_GET(r) ==
    /\ Accept(r)
    /\ \E caller \in Callers, projectId \in ProjectIds :
         LET q == Invoke("comments.GET", caller, projectId, NoBody)
             project == findUnique(projectId)
         IN IF project = Undefined
            THEN Return(r, Respond(q, 404, "Project not found"))
            ELSE IF notPublished(project[1])
            THEN Return(r, Respond(q, 403, "Project is not published"))
            ELSE Goto(r, [q EXCEPT !.pc = "findMany"])
    /\ UNCHANGED store

\* prisma.comment.findMany
comments_GET_findMany(r) ==
    LET q == req[r] IN
    /\ At(r, "comments.GET", "findMany")
    /\ Return(r, Respond(q, 200, findMany(q.id)))
    /\ UNCHANGED store

(* ------------------ /view/[id]: the page's comment list ---------------- *)
\* res.ok
ok(res) == res.status \in 200..299

\* fetchComments: setComments(data) only if (res.ok); shown is the page's
\* comments state before the fetch, [] on a fresh load
fetchComments(shown, res) == IF ok(res) THEN res.data[1] ELSE shown

(* ------------------------ page requests (navigation) ------------------- *)
\* the landing page and the pages of the route group (app)
Pages == {"/", "/dashboard", "/editor/[id]", "/view/[id]"}

\* the pages under app/(app)/, which AppLayout wraps
AppGroup == {"/dashboard", "/editor/[id]", "/view/[id]"}

\* createRouteMatcher(["/dashboard(.*)", "/editor(.*)"])
isProtectedRoute(path) == path \in {"/dashboard", "/editor/[id]"}

\* a browser navigates to a page: clerkMiddleware (auth.protect() on a
\* protected route), then AppLayout around the pages of its route group
\* (redirect("/signin") without a userId), then the page itself
page_GET(r) ==
    /\ Accept(r)
    /\ \E caller \in Callers, path \in Pages, id \in ProjectIds :
         LET q == Invoke(path, caller, id, NoBody)
         IN IF isProtectedRoute(path) /\ caller = NoUser
            THEN Return(r, Respond(q, 307, "sign-in"))
            ELSE IF path \in AppGroup /\ caller = NoUser
            THEN Return(r, Respond(q, 307, "/signin"))
            ELSE Return(r, Respond(q, 200, path))
    /\ UNCHANGED store

(* ------------------------------ behaviours ----------------------------- *)
\* the response is sent to the client before the server takes another step
send ==
    /\ resp # Idle
    /\ resp' = Idle
    /\ UNCHANGED <<store, req, parallel, faults, cap, client>>

Next ==
    \/ send
    \/ \E r \in Reqs :
        \/ projects_POST(r)
        \/ projects_POST_create(r)
        \/ projects_POST_uploadThumbnail(r)
        \/ projects_POST_update(r)
        \/ projects_GET(r)
        \/ project_GET(r)
        \/ project_PATCH(r)
        \/ project_PATCH_deleteThumbnail(r)
        \/ project_PATCH_uploadThumbnail(r)
        \/ project_PATCH_update(r)
        \/ project_DELETE(r)
        \/ project_DELETE_deleteThumbnail(r)
        \/ project_DELETE_delete(r)
        \/ publish_POST(r)
        \/ publish_POST_update(r)
        \/ comments_POST(r)
        \/ comments_POST_upsert(r)
        \/ comments_POST_create(r)
        \/ comments_GET(r)
        \/ comments_GET_findMany(r)
        \/ page_GET(r)

\* calls handled one after the other
Spec == Init /\ [][Next]_vars

\* a fresh deployment in which up to MaxListed projects are created, edited,
\* published and listed, one call after the other
InitList ==
    /\ Empty /\ now = 0 /\ nextCid = 0
    /\ Quiet /\ parallel = FALSE /\ faults = "thumbnail" /\ cap = MaxListed /\ Closed

NextList ==
    \/ send
    \/ \E r \in Reqs :
        \/ projects_POST(r)
        \/ projects_POST_create(r)
        \/ projects_POST_uploadThumbnail(r)
        \/ projects_POST_update(r)
        \/ projects_GET(r)
        \/ project_PATCH(r)
        \/ project_PATCH_deleteThumbnail(r)
        \/ project_PATCH_uploadThumbnail(r)
        \/ project_PATCH_update(r)
        \/ publish_POST(r)
        \/ publish_POST_update(r)

SpecList == InitList /\ [][NextList]_vars

\* calls on an existing project handled concurrently
NextParallel ==
    \/ send
    \/ \E r \in Reqs :
        \/ project_GET(r)
        \/ project_PATCH(r)
        \/ project_PATCH_deleteThumbnail(r)
        \/ project_PATCH_uploadThumbnail(r)
        \/ project_PATCH_update(r)
        \/ project_DELETE(r)
        \/ project_DELETE_deleteThumbnail(r)
        \/ project_DELETE_delete(r)
        \/ publish_POST(r)
        \/ publish_POST_update(r)
        \/ comments_POST(r)
        \/ comments_POST_upsert(r)
        \/ comments_POST_create(r)
        \/ comments_GET(r)
        \/ comments_GET_findMany(r)

SpecParallel == InitParallel /\ [][NextParallel]_vars

\* the writing operations on projects
NextWrites ==
    \/ send
    \/ \E r \in Reqs :
        \/ projects_POST(r)
        \/ projects_POST_create(r)
        \/ projects_POST_uploadThumbnail(r)
        \/ projects_POST_update(r)
        \/ project_PATCH(r)
        \/ project_PATCH_deleteThumbnail(r)
        \/ project_PATCH_uploadThumbnail(r)
        \/ project_PATCH_update(r)
        \/ project_DELETE(r)
        \/ project_DELETE_deleteThumbnail(r)
        \/ project_DELETE_delete(r)

\* Create, Update and Delete handled one after the other while any single
\* Thumbnail Store or Document Store call may fail
InitFaulty ==
    /\ (Empty \/ Seeded) /\ now = 0 /\ nextCid = 0
    /\ Quiet /\ parallel = FALSE /\ faults = "any" /\ cap = MaxProjects /\ Closed

SpecFaulty == InitFaulty /\ [][NextWrites]_vars

\* Update and Delete of an existing project handled concurrently while no
\* store call fails
NextReliable ==
    \/ send
    \/ \E r \in Reqs :
        \/ project_PATCH(r)
        \/ project_PATCH_deleteThumbnail(r)
        \/ project_PATCH_uploadThumbnail(r)
        \/ project_PATCH_update(r)
        \/ project_DELETE(r)
        \/ project_DELETE_deleteThumbnail(r)
        \/ project_DELETE_delete(r)

InitReliable ==
    /\ Commented /\ now = 1 /\ nextCid = 1
    /\ Quiet /\ parallel = TRUE /\ faults = "none" /\ cap = MaxProjects /\ Closed

SpecReliable == InitReliable /\ [][NextReliable]_vars

(* ------------------- /editor/[id] (the editor page) -------------------- *)
\* clearTimeout(id): a no-op for an id that is not pending
clearTimeout(pending, id) == { t \in pending : t.id # id }

\* the dependency list [hasUnsavedChanges, handleSave, project] of the autosave
\* effect; handleSave is memoised on [id, project, title]
depsChanged(old, new) ==
    \/ old.hasUnsavedChanges # new.hasUnsavedChanges
    \/ old.project # new.project
    \/ old.title # new.title

\* the render that takes the page's state to new, and the autosave effect after
\* it: when a dependency changed and the page has a project, an editor and
\* unsaved changes, the timer the ref names is cleared and one that calls this
\* render's handleSave is set
render(new) ==
    IF depsChanged(page, new) /\ new.project # 0 /\ new.editorRef /\ new.hasUnsavedChanges
    THEN /\ timers' = clearTimeout(timers, page.autoSaveTimerRef) \cup
                        {[id |-> nextTimer + 1, remaining |-> AutosaveDelay,
                          title |-> new.title]}
         /\ nextTimer' = nextTimer + 1
         /\ page' = [new EXCEPT !.autoSaveTimerRef = nextTimer + 1]
    ELSE /\ page' = new
         /\ UNCHANGED <<timers, nextTimer>>

\* fetchProject answered with the project: setProject, setTitle, setLoading(false)
fetchProject_ok ==
    /\ page.mounted /\ page.loading
    /\ render([page EXCEPT !.loading = FALSE, !.project = 1])
    /\ UNCHANGED <<canvas, fetches, elapsed, edits, clicks, failed, persisted, server>>

\* fetchProject answered with an error: the page is left without a project
fetchProject_failed ==
    /\ page.mounted /\ page.loading
    /\ render([page EXCEPT !.loading = FALSE])
    /\ UNCHANGED <<canvas, fetches, elapsed, edits, clicks, failed, persisted, server>>

\* <Tldraw onMount>: the editor is kept in editorRef and handleEditorChange
\* listens to its store
onMount ==
    /\ page.mounted /\ page.project # 0 /\ ~page.editorRef
    /\ page' = [page EXCEPT !.editorRef = TRUE]
    /\ UNCHANGED <<canvas, timers, nextTimer, fetches, elapsed, edits, clicks, failed,
                   persisted, server>>

\* a change of the canvas: setHasUnsavedChanges(true)
handleEditorChange ==
    /\ page.mounted /\ page.editorRef
    /\ edits < MaxEdits
    /\ canvas' = canvas + 1
    /\ edits' = edits + 1
    /\ elapsed' = 0
    /\ failed' = FALSE
    /\ render([page EXCEPT !.hasUnsavedChanges = TRUE])
    /\ UNCHANGED <<fetches, clicks, persisted, server>>

\* a change of the title input: setTitle, setHasUnsavedChanges(true)
title_onChange ==
    /\ page.mounted /\ page.project # 0
    /\ edits < MaxEdits
    /\ edits' = edits + 1
    /\ elapsed' = 0
    /\ failed' = FALSE
    /\ render([page EXCEPT !.title = @ + 1, !.hasUnsavedChanges = TRUE])
    /\ UNCHANGED <<canvas, fetches, clicks, persisted, server>>

\* a second passes, unless a timer is due
tick ==
    /\ timers # {} \/ elapsed < AutosaveDelay
    /\ \A t \in timers : t.remaining > 0
    /\ timers' = { [t EXCEPT !.remaining = @ - 1] : t \in timers }
    /\ elapsed' = IF elapsed < AutosaveDelay THEN elapsed + 1 ELSE elapsed
    /\ UNCHANGED <<page, canvas, nextTimer, fetches, edits, clicks, failed, persisted, server>>

\* the PATCH request of handleSave: the title of the render handleSave belongs
\* to, the document getSnapshot reads when it is called
saveRequest(timer, title) ==
    [timer |-> timer, click |-> IF timer = 0 THEN clicks + 1 ELSE 0,
     title |-> title, snapshot |-> canvas, live |-> page.mounted]

\* a due timer runs its callback, handleSave(): setSaving(true), fetch PATCH
autoSaveTimer ==
    \E t \in timers :
        /\ t.remaining = 0
        /\ timers' = timers \ {t}
        /\ fetches' = fetches \cup {saveRequest(t.id, t.title)}
        /\ page' = IF page.mounted THEN [page EXCEPT !.saving = TRUE] ELSE page
        /\ UNCHANGED <<canvas, nextTimer, elapsed, edits, clicks, failed, persisted, server>>

\* the Save button (disabled while saving): handleSave(true)
handleSave_onClick ==
    /\ page.mounted /\ page.project # 0 /\ page.editorRef /\ ~page.saving
    /\ clicks < MaxClicks
    /\ clicks' = clicks + 1
    /\ fetches' = fetches \cup {saveRequest(0, page.title)}
    /\ page' = [page EXCEPT !.saving = TRUE]
    /\ UNCHANGED <<canvas, timers, nextTimer, elapsed, edits, failed, persisted, server>>

\* res.ok: setProject(updated), setHasUnsavedChanges(false), setSaving(false)
handleSave_ok ==
    \E s \in fetches :
        /\ fetches' = fetches \ {s}
        /\ IF page.mounted
           THEN render([page EXCEPT !.project = @ + 1, !.hasUnsavedChanges = FALSE,
                                    !.saving = FALSE])
           ELSE UNCHANGED <<page, timers, nextTimer>>
        /\ persisted' = [title |-> s.title, snapshot |-> s.snapshot]
        /\ UNCHANGED <<canvas, elapsed, edits, clicks, failed, server>>

\* the fetch rejects or !res.ok: alert, setSaving(false)
handleSave_failed ==
    \E s \in fetches :
        /\ fetches' = fetches \ {s}
        /\ failed' = (failed \/ s.timer # 0)
        /\ IF page.mounted
           THEN render([page EXCEPT !.saving = FALSE])
           ELSE UNCHANGED <<page, timers, nextTimer>>
        /\ UNCHANGED <<canvas, elapsed, edits, clicks, persisted, server>>

\* the Publish button, answered ok: setProject(prev => ({ ...prev, published }))
handleTogglePublish ==
    /\ page.mounted /\ page.project # 0
    /\ clicks < MaxClicks
    /\ clicks' = clicks + 1
    /\ render([page EXCEPT !.project = @ + 1])
    /\ UNCHANGED <<canvas, fetches, elapsed, edits, failed, persisted, server>>

\* the unmount cleanup forgotten
cleanup_none(pending, ref) == pending

\* the cleanup of the fetchProject effect:
\* if (autoSaveTimerRef.current) clearTimeout(autoSaveTimerRef.current)
cleanup(pending, ref) == IF ref # 0 THEN clearTimeout(pending, ref) ELSE pending

\* the page unmounts: the editing session ends
unmount ==
    /\ page.mounted
    /\ timers' = cleanup(timers, page.autoSaveTimerRef)
    /\ page' = [page EXCEPT !.mounted = FALSE]
    /\ UNCHANGED <<canvas, nextTimer, fetches, elapsed, edits, clicks, failed, persisted, server>>

\* the owner opens the editor page of the project of a deployment in use; the
\* server's answers to the page's requests are inputs
InitEditor ==
    /\ Seeded /\ now = 0 /\ nextCid = 0
    /\ Quiet /\ parallel = FALSE /\ faults = "thumbnail" /\ cap = MaxProjects
    /\ page = [NoPage EXCEPT !.mounted = TRUE] /\ Fresh

NextEditor ==
    \/ fetchProject_ok
    \/ fetchProject_failed
    \/ onMount
    \/ handleEditorChange
    \/ title_onChange
    \/ tick
    \/ autoSaveTimer
    \/ handleSave_onClick
    \/ handleSave_ok
    \/ handleSave_failed
    \/ handleTogglePublish
    \/ unmount

SpecEditor == InitEditor /\ [][NextEditor]_vars


(* ============================== properties ============================= *)
\* a response of operation op is being sent
Sent(op) == resp # Idle /\ resp.op = op

\* a response of one of the three owner-only writes is being sent
OwnerOnly == {"project.PATCH", "project.DELETE", "publish.POST"}

(* C1: Get answers 200 with the project's snapshot exactly when the requester
   is the owner or the project is published, and 403 for every other
   requester of an existing project (the unauthenticated viewer included);
   the answer follows the flag, so the request refused before a TogglePublish
   is granted after it. *)
C1_GetVisibility ==
    Sent("project.GET") /\ resp.id \in DOMAIN projects =>
        LET project == projects[resp.id]
            allowed == resp.caller = project.userId \/ project.published
        IN /\ allowed => /\ resp.status = 200
                         /\ resp.data[1].id = project.id
                         /\ resp.data[1].snapshot = project.snapshot
           /\ ~allowed => resp.status = 403

\* an unauthenticated viewer is answered 200 on a project that was created
\* (unpublished) in this behaviour and published since
C1_Witness ==
    /\ Sent("project.GET")
    /\ resp.caller = NoUser
    /\ resp.status = 200
    /\ resp.id \in DOMAIN projects
    /\ projects[resp.id].createdAt > 0

(* C2: a PATCH, DELETE or TogglePublish call by an authenticated user who is
   not the owner of the existing project is answered 403, and the step that
   answers it leaves the project rows, the comments and the thumbnail
   objects exactly as they were. *)
C2_NonOwnerForbidden ==
    [][ ( /\ resp = Idle /\ resp' # Idle
          /\ resp'.op \in OwnerOnly
          /\ resp'.caller \in UserIds
          /\ resp'.id \in DOMAIN projects
          /\ projects[resp'.id].userId # resp'.caller )
        => /\ resp'.status = 403
           /\ UNCHANGED <<projects, comments, blobs>> ]_vars

\* a non-owner's Delete is refused on a project that has a comment and a
\* stored thumbnail
C2_Witness ==
    /\ Sent("project.DELETE")
    /\ resp.status = 403
    /\ resp.caller \in UserIds
    /\ \E c \in comments : c.projectId = resp.id
    /\ projects[resp.id].thumbnailUrl \in blobs

\* the write step of a TogglePublish on project id
toggleWrites(id) ==
    \E r \in Reqs : At(r, "publish.POST", "update") /\ req[r].id = id

\* the write step of the owner's PATCH on project id whose body carries published
patchWritesPublished(id) ==
    \E r \in Reqs : /\ At(r, "project.PATCH", "update") /\ req[r].id = id
                    /\ req[r].body.published # Undefined
                    /\ req[r].caller = projects[id].userId

\* the published flag of a project that stays in the store changes in this step
publishedChanges(id) ==
    /\ id \in DOMAIN projects /\ id \in DOMAIN projects'
    /\ projects'[id].published # projects[id].published

(* C3 as stated: the published flag changes only in the write of a
   TogglePublish; no PATCH, whatever its body, changes it. *)
C3_OnlyToggle ==
    [][ \A id \in ProjectIds : publishedChanges(id) => toggleWrites(id) ]_vars

(* C3: the published flag changes only in the write of a TogglePublish or in
   the write of a PATCH by the owner whose body carries a published field; a
   PATCH without that field, and every other operation, leaves it alone. *)
C3_ToggleOrOwnerPatch ==
    [][ \A id \in ProjectIds :
          publishedChanges(id) => toggleWrites(id) \/ patchWritesPublished(id) ]_vars

\* the owner's PATCH { published: true } has published an unpublished project
C3_Witness ==
    /\ Sent("project.PATCH")
    /\ resp.status = 200
    /\ resp.body.published = Some(TRUE)
    /\ ~resp.existing[1].published
    /\ projects[resp.id].published

(* C4: every project row carries the owner it was created with, whatever
   operations have run since. *)
C4_OwnerImmutable ==
    \A id \in DOMAIN projects : projects[id].userId = creator[id]

\* the owner's PATCH whose body names another user as userId was answered 200,
\* and the row still carries the owner
C4_Witness ==
    /\ Sent("project.PATCH")
    /\ resp.status = 200
    /\ resp.body.userId # Undefined
    /\ DOMAIN users = UserIds
    /\ projects[resp.id].userId # resp.body.userId[1]

(* C5: a failure of the Thumbnail Store during Create, Update or Delete does
   not abort the operation: the call is still answered 201 (Create) or 200
   (Update, Delete), and the record is created, updated as the body asks, or
   removed. *)
C5_ThumbnailFailureTolerated ==
    resp # Idle /\ resp.thumbFailed =>
        /\ Sent("projects.POST") =>
             /\ resp.status = 201
             /\ resp.id \in DOMAIN projects
             /\ projects[resp.id].title = resp.body.title[1]
             /\ projects[resp.id].snapshot = resp.body.snapshot[1]
             /\ projects[resp.id].userId = resp.caller
        /\ Sent("project.PATCH") =>
             /\ resp.status = 200
             /\ resp.id \in DOMAIN projects
             /\ resp.body.title # Undefined =>
                  projects[resp.id].title = resp.body.title[1]
             /\ resp.body.snapshot # Undefined =>
                  projects[resp.id].snapshot = resp.body.snapshot[1]
        /\ Sent("project.DELETE") =>
             /\ resp.status = 200
             /\ resp.id \notin DOMAIN projects

\* the upload of a PATCH failed and the title it carried was stored all the same
C5_Witness ==
    /\ Sent("project.PATCH")
    /\ resp.thumbFailed
    /\ resp.status = 200
    /\ resp.body.title # Undefined
    /\ projects[resp.id].title = resp.body.title[1]

\* the ids of a sequence of listed comments, and of a set of comment rows
listedIds(list) == { list[i].id : i \in 1..Len(list) }
rowIds(rows)    == { c.id : c \in rows }

\* the comment rows of project id
commentsOf(id) == { c \in comments : c.projectId = id }

(* C6: once a Delete has removed project p, whatever ran before and however
   comment creation interleaved with it, the store holds no row of p and no
   comment of p (nor any other orphan comment); the Delete that read a
   thumbnail on the row called deleteThumbnail before it removed the row;
   and every Get of p is answered 404. *)
C6_DeleteLeavesNothing ==
    /\ \A id \in removed : id \notin DOMAIN projects /\ commentsOf(id) = {}
    /\ \A c \in comments : c.projectId \in DOMAIN projects
    /\ \A r \in Reqs :
         ( /\ req[r].op = "project.DELETE" /\ req[r].pc = "delete"
           /\ req[r].existing[1].thumbnailUrl # NoUrl ) => req[r].delTried
    /\ Sent("project.DELETE") /\ resp.status = 200 =>
         /\ resp.id \in removed
         /\ resp.existing[1].thumbnailUrl # NoUrl => resp.delTried
    /\ Sent("project.GET") /\ resp.id \in removed => resp.status = 404

\* the owner's Delete of a project with a thumbnail and two comments is
\* answered 200 while a comment creation that passed its published check is
\* about to insert its row
C6_Witness ==
    /\ Sent("project.DELETE")
    /\ resp.status = 200
    /\ resp.delTried
    /\ nextCid = 2
    /\ comments = {}
    /\ \E r \in Reqs : req[r].op = "comments.POST" /\ req[r].pc = "create"
                       /\ req[r].id = resp.id

(* C7: a Comment Create on an existing unpublished project, by any
   authenticated author (the owner included) and with any content that is
   not blank, is answered 403, and the call inserts no comment row and
   creates or updates no User record. *)
C7_NoCommentOnUnpublished ==
    [][ ( /\ resp = Idle /\ resp' # Idle
          /\ resp'.op = "comments.POST"
          /\ resp'.caller \in UserIds
          /\ resp'.body.content # Undefined
          /\ Trim(resp'.body.content[1]) # << >>
          /\ resp'.id \in DOMAIN projects
          /\ ~projects[resp'.id].published )
        => /\ resp'.status = 403
           /\ UNCHANGED <<comments, users>> ]_vars

\* the owner's own comment on their unpublished project is refused
C7_Witness ==
    /\ Sent("comments.POST")
    /\ resp.status = 403
    /\ resp.id \in DOMAIN projects
    /\ resp.caller = projects[resp.id].userId
    /\ Trim(resp.body.content[1]) # << >>

(* C8: Comment List, for any caller, authenticated or not, is answered 404
   when the project does not exist and 403 when it exists unpublished; when
   it is published the answer is 200 with exactly the comments of that
   project, each once and with the id, name and email of its author, in
   ascending order of creation time, which is the order they were created in. *)
C8_CommentList ==
    Sent("comments.GET") =>
        IF resp.id \notin DOMAIN projects THEN resp.status = 404
        ELSE IF ~projects[resp.id].published THEN resp.status = 403
        ELSE /\ resp.status = 200
             /\ LET list == resp.data[1]
                    rows == commentsOf(resp.id)
                IN /\ Len(list) = Cardinality(rows)
                   /\ \A c \in rows : \E i \in 1..Len(list) :
                        /\ list[i].id = c.id
                        /\ list[i].content = c.content
                        /\ list[i].createdAt = c.createdAt
                        /\ list[i].user = [id    |-> c.userId,
                                           name  |-> users[c.userId].name,
                                           email |-> users[c.userId].email]
                   /\ \A i, j \in 1..Len(list) :
                        i < j => /\ list[i].createdAt < list[j].createdAt
                                 /\ list[i].id < list[j].id

\* an unauthenticated caller lists two comments, the later one last
C8_Witness ==
    /\ Sent("comments.GET")
    /\ resp.caller = NoUser
    /\ resp.status = 200
    /\ Len(resp.data[1]) = 2
    /\ resp.data[1][1].user.id # resp.data[1][2].user.id

(* C9: the write of a TogglePublish leaves the stored comments unchanged; a
   project that was unpublished still has every comment it had then, gains
   none while it stays unpublished, and once it is published again Comment
   List returns, of the comments created before the unpublish, exactly those
   it had at the unpublish. *)
C9_HideNotDelete ==
    /\ [](\A id \in DOMAIN hidden \cap DOMAIN projects :
            /\ hidden[id].rows \subseteq comments
            /\ ~projects[id].published => commentsOf(id) = hidden[id].rows)
    /\ [](Sent("comments.GET") /\ resp.status = 200 /\ resp.id \in DOMAIN hidden =>
            LET list == resp.data[1]
                at   == hidden[resp.id].at
            IN { list[i].id : i \in { k \in 1..Len(list) : list[k].createdAt < at } }
                 = rowIds(hidden[resp.id].rows))
    /\ [][ \A id \in ProjectIds : toggleWrites(id) => comments' = comments ]_vars

\* Comment List on a project that had a comment when it was unpublished, and
\* has been published again, returns that comment and nothing else
C9_Witness ==
    /\ Sent("comments.GET")
    /\ resp.status = 200
    /\ resp.id \in DOMAIN hidden
    /\ hidden[resp.id].rows # {}
    /\ listedIds(resp.data[1]) = rowIds(hidden[resp.id].rows)

(* C10 as stated: the comments a project had when it was unpublished can
   still be read through the comment read path while it is unpublished:
   Comment List answers 200 and a freshly loaded view page shows them. *)
C10_StillVisible ==
    ( /\ Sent("comments.GET")
      /\ resp.id \in DOMAIN hidden \cap DOMAIN projects
      /\ ~projects[resp.id].published
      /\ hidden[resp.id].rows # {} )
    => /\ resp.status = 200
       /\ rowIds(hidden[resp.id].rows) \subseteq listedIds(fetchComments(<< >>, resp))

(* C10: the publish requirement is enforced on reading as well as on
   creating: while a project that was unpublished stays unpublished, the
   comments it had persist in the store, but Comment List answers 403 to
   every caller and a freshly loaded view page shows no comment. *)
C10_PersistButUnreadable ==
    ( /\ Sent("comments.GET")
      /\ resp.id \in DOMAIN hidden \cap DOMAIN projects
      /\ ~projects[resp.id].published )
    => /\ hidden[resp.id].rows \subseteq comments
       /\ resp.status = 403
       /\ fetchComments(<< >>, resp) = << >>

\* Comment List is refused on an unpublished project whose comments from
\* before the unpublish are still stored
C10_Witness ==
    /\ Sent("comments.GET")
    /\ resp.status = 403
    /\ resp.id \in DOMAIN hidden
    /\ hidden[resp.id].rows # {}
    /\ hidden[resp.id].rows \subseteq comments

(* C11: a TogglePublish by the owner answers with the negation of the
   published value stored before the call, and stores that value; a second
   TogglePublish with no other write of the project in between answers with,
   and stores, the value the project had before the first. *)
C11_ToggleNegates ==
    Sent("publish.POST") /\ resp.status = 200 =>
        LET before == flipped[resp.id] IN
        /\ resp.caller = projects[resp.id].userId
        /\ resp.data[1].published = ~before[Len(before)]
        /\ projects[resp.id].published = ~before[Len(before)]
        /\ Len(before) = 2 =>
             /\ resp.data[1].published = before[1]
             /\ projects[resp.id].published = before[1]

\* the second of two TogglePublish calls in succession is answered
C11_Witness ==
    /\ Sent("publish.POST")
    /\ resp.status = 200
    /\ Len(flipped[resp.id]) = 2
    /\ resp.data[1].published = flipped[resp.id][1]

\* the handler in slot r is about to write the row of an owner's PATCH
patchWrites(r) == At(r, "project.PATCH", "update") /\ req[r].id \in DOMAIN projects

(* C12: the write of an owner's PATCH stores the fields the body carries and
   leaves every field the body omits as it was stored: title, snapshot, and,
   when no thumbnail payload is sent, the thumbnail reference; the owner, the
   id and the creation time never change; and a PATCH without a thumbnail
   payload makes no Thumbnail Store call. *)
C12_PartialUpdate ==
    /\ [](\A r \in Reqs :
            req[r].op = "project.PATCH" /\ ~Truthy(req[r].body.thumbnailDataUrl)
            => req[r].pc \notin {"deleteThumbnail", "uploadThumbnail"})
    /\ [][ \A r \in Reqs : patchWrites(r) =>
             LET body == req[r].body
                 old  == projects[req[r].id]
                 new  == projects'[req[r].id]
             IN /\ new.title = IF body.title # Undefined THEN body.title[1] ELSE old.title
                /\ new.snapshot = IF body.snapshot # Undefined THEN body.snapshot[1]
                                  ELSE old.snapshot
                /\ ~Truthy(body.thumbnailDataUrl) =>
                     new.thumbnailUrl = old.thumbnailUrl /\ blobs' = blobs
                /\ new.userId = old.userId
                /\ new.id = old.id
                /\ new.createdAt = old.createdAt ]_vars

\* a PATCH carrying only a title has stored it on a project that keeps its
\* snapshot and its thumbnail
C12_Witness ==
    /\ Sent("project.PATCH")
    /\ resp.status = 200
    /\ resp.body.title # Undefined
    /\ resp.body.snapshot = Undefined
    /\ resp.body.thumbnailDataUrl = Undefined
    /\ projects[resp.id].title = resp.body.title[1]
    /\ projects[resp.id].snapshot \in Snapshots
    /\ projects[resp.id].thumbnailUrl \in blobs

\* the snapshot or the metadata of a project that stays in the store is
\* written with a new value in this step
contentChanges(id) ==
    /\ id \in DOMAIN projects /\ id \in DOMAIN projects'
    /\ \/ projects'[id].snapshot # projects[id].snapshot
       \/ projects'[id].title # projects[id].title
       \/ projects'[id].published # projects[id].published
       \/ projects'[id].thumbnailUrl # projects[id].thumbnailUrl

(* C13: every PATCH write, whatever fields the body carries and also when it
   carries none, moves updatedAt forward to the time of the write; updatedAt
   never decreases; every step that changes a project's snapshot, title,
   published flag or thumbnail reference stamps updatedAt with the time of
   that step, so updatedAt is never older than the latest such write; and it
   lies between createdAt and the current time. *)
C13_UpdatedAt ==
    /\ [](\A id \in DOMAIN projects :
            projects[id].createdAt <= projects[id].updatedAt
            /\ projects[id].updatedAt <= now)
    /\ [][ /\ \A r \in Reqs : patchWrites(r) =>
                /\ projects'[req[r].id].updatedAt > projects[req[r].id].updatedAt
                /\ projects'[req[r].id].updatedAt = now'
                /\ resp'.status = 200
                /\ resp'.data[1].updatedAt = now'
           /\ \A id \in ProjectIds :
                /\ id \in DOMAIN projects /\ id \in DOMAIN projects'
                   => projects'[id].updatedAt >= projects[id].updatedAt
                /\ contentChanges(id)
                   => now' > now /\ projects'[id].updatedAt = now' ]_vars

\* a PATCH with an empty body, which changes no field, is answered with a
\* fresh updatedAt
C13_Witness ==
    /\ Sent("project.PATCH")
    /\ resp.status = 200
    /\ resp.body = NoBody
    /\ projects[resp.id].updatedAt = now
    /\ projects[resp.id].updatedAt > projects[resp.id].createdAt

\* a Create body without a title (or with an empty one) or without a snapshot
lacksField(body) ==
    body.title = Undefined \/ body.title[1] = << >> \/ body.snapshot = Undefined

\* the fields of an entry of the list
ListFields == {"id", "title", "thumbnailUrl", "published", "createdAt", "updatedAt"}

\* term occurs in title when letter case is ignored
occursIn(term, title) ==
    \E i \in 0..(Len(title) - Len(term)) :
        \A k \in 1..Len(term) : toLowerCase(title[i + k]) = toLowerCase(term[k])

(* C14: Project List for an authenticated caller returns entries without a
   snapshot for exactly the caller's projects whose title contains the search
   term case-insensitively (all of the caller's projects when the term is
   absent or empty), never another user's project, each entry carrying the
   stored values, ordered by updatedAt descending. *)
C14_ListOwnFiltered ==
    Sent("projects.GET") /\ resp.caller # NoUser =>
        /\ resp.status = 200
        /\ LET list == resp.data[1]
               term == resp.body.search
               mine == { id \in DOMAIN projects : projects[id].userId = resp.caller }
               hits == IF term = Undefined \/ term[1] = <<>>
                       THEN mine
                       ELSE { id \in mine : occursIn(term[1], projects[id].title) }
           IN /\ listedIds(list) = hits
              /\ Len(list) = Cardinality(hits)
              /\ \A i \in 1..Len(list) :
                    /\ DOMAIN list[i] = ListFields
                    /\ \A f \in ListFields : list[i][f] = projects[list[i].id][f]
              /\ \A i, j \in 1..Len(list) :
                    i < j => list[i].updatedAt >= list[j].updatedAt

\* the caller owns two projects; the lower-case term occurs in the title of
\* the one edited last only when case is ignored and does not occur in the
\* other title, and the list holds that one project
C14_Witness ==
    /\ Sent("projects.GET")
    /\ resp.status = 200
    /\ resp.body.search = Some(<<"b">>)
    /\ Len(resp.data[1]) = 1
    /\ resp.data[1][1].title = <<"a", "B">>
    /\ \E id \in DOMAIN projects :
         /\ projects[id].userId = resp.caller
         /\ projects[id].title = <<"A">>
         /\ projects[id].updatedAt < resp.data[1][1].updatedAt

(* C15: a Create by a caller without identity is answered 401 and a Create by
   an authenticated caller whose body lacks the title or the snapshot is
   answered 400; such a call never gets past its first step, and that step
   creates no project row, writes no User record and stores no thumbnail. *)
C15_CreateRejected ==
    /\ [](\A r \in Reqs : req[r].op = "projects.POST" =>
            req[r].caller \in UserIds /\ ~lacksField(req[r].body))
    /\ [][ ( /\ resp = Idle /\ resp' # Idle
             /\ resp'.op = "projects.POST"
             /\ resp'.caller = NoUser \/ lacksField(resp'.body) )
           => /\ resp'.status = IF resp'.caller = NoUser THEN 401 ELSE 400
              /\ UNCHANGED <<projects, users, blobs, nextId>> ]_vars

\* a new user's Create without a snapshot is answered 400 and the user has no
\* User record
C15_Witness ==
    /\ Sent("projects.POST")
    /\ resp.status = 400
    /\ resp.caller \in UserIds
    /\ Truthy(resp.body.title)
    /\ resp.body.snapshot = Undefined
    /\ resp.caller \notin DOMAIN users
    /\ projects = << >>

(* C16: a created project starts unpublished: the 201 response of a Create
   carries published = false and the stored row has it too, and when the
   request had no thumbnail payload both carry thumbnailUrl = null; a List
   without a search term by the owner of a project that nothing has been
   written after its creation returns that project first, unpublished. *)
C16_StartsUnpublished ==
    /\ Sent("projects.POST") /\ resp.status = 201 =>
         /\ ~resp.data[1].published
         /\ ~projects[resp.id].published
         /\ ~Truthy(resp.body.thumbnailDataUrl) =>
              /\ resp.data[1].thumbnailUrl = NoUrl
              /\ projects[resp.id].thumbnailUrl = NoUrl
    /\ Sent("projects.GET") /\ resp.status = 200 /\ ~Truthy(resp.body.search) =>
         \A id \in DOMAIN projects :
            projects[id].userId = resp.caller /\ projects[id].createdAt = now =>
               /\ Len(resp.data[1]) > 0
               /\ resp.data[1][1].id = id
               /\ ~resp.data[1][1].published

\* the owner of an older project lists right after creating a second one, and
\* the new project comes first, unpublished and without a thumbnail
C16_Witness ==
    /\ Sent("projects.GET")
    /\ resp.status = 200
    /\ resp.body.search = Undefined
    /\ Len(resp.data[1]) = 2
    /\ resp.data[1][1].createdAt = now
    /\ resp.data[1][1].createdAt > resp.data[1][2].updatedAt
    /\ ~resp.data[1][1].published
    /\ resp.data[1][1].thumbnailUrl = NoUrl

(* C17: every project row names an existing User as its owner and every
   comment row names an existing User as its author, because a Create or a
   Comment Create reaches its insert only after the caller's User record has
   been upserted. *)
C17_ValidReferences ==
    /\ \A id \in DOMAIN projects : projects[id].userId \in DOMAIN users
    /\ \A c \in comments : c.userId \in DOMAIN users
    /\ \A r \in Reqs :
         req[r].op \in {"projects.POST", "comments.POST"} /\ req[r].pc = "create"
         => req[r].caller \in DOMAIN users

\* a user with no record before has commented on a project created in this
\* behaviour by another new user
C17_Witness ==
    /\ Sent("comments.POST")
    /\ resp.status = 201
    /\ projects[resp.id].createdAt > 0
    /\ projects[resp.id].userId # resp.caller
    /\ \E c \in comments : c.userId = resp.caller /\ c.projectId = resp.id

\* the step is a change of the document, of its canvas or of its title
documentChange == edits' = edits + 1

\* the autosave requests the step starts
autosavesStarted == { s \in fetches' \ fetches : s.timer # 0 }

(* C18: autosave is debounced: at most one autosave timer is pending at any
   time; a change of the document (canvas or title) made while a timer is
   pending cancels it and leaves one fresh timer, due a full AutosaveDelay
   later; and an autosave starts only when AutosaveDelay has passed since the
   last change. *)
C18_Debounced ==
    /\ [](Cardinality(timers) <= 1)
    /\ [][ documentChange /\ timers # {} =>
             /\ timers' \cap timers = {}
             /\ \E t \in timers' :
                  timers' = {t} /\ t.remaining = AutosaveDelay ]_vars
    /\ [][ autosavesStarted # {} => elapsed = AutosaveDelay ]_vars

(* C19: when the editor page unmounts the pending autosave timer is cleared:
   no timer is pending once the page is unmounted, and every autosave request
   was started by a timer while the page was mounted. *)
C19_TimerCleared ==
    /\ ~page.mounted => timers = {}
    /\ \A s \in fetches : s.timer # 0 => s.live

\* the page was unmounted less than AutosaveDelay after its only change, which
\* had set the only timer of the session: the timer was pending at the unmount
C19_Witness ==
    /\ ~page.mounted
    /\ edits = 1 /\ clicks = 0
    /\ nextTimer = 1 /\ page.autoSaveTimerRef = 1
    /\ page.hasUnsavedChanges
    /\ elapsed > 0 /\ elapsed < AutosaveDelay
    /\ timers = {}

(* C20: a failed autosave is left for the next debounce cycle: the failure
   starts no request and sets no timer and leaves hasUnsavedChanges as it is;
   the next change of the document (canvas or title) sets a new autosave
   timer, due AutosaveDelay later; and an autosave sends the document and the
   title as they are when its timer fires. *)
C20_NextCycle ==
    /\ [][ failed' /\ ~failed =>
             /\ timers' = timers
             /\ fetches' \subseteq fetches
             /\ page'.hasUnsavedChanges = page.hasUnsavedChanges ]_vars
    /\ [][ failed /\ documentChange =>
             \E t \in timers' \ timers : t.remaining = AutosaveDelay ]_vars
    /\ [][ \A s \in autosavesStarted :
             s.snapshot = canvas /\ s.title = page.title ]_vars

\* the title and the document of the page as they are now
current == [title |-> page.title, snapshot |-> canvas]

(* C21: the autosave timer causes no redundant save: a save request started
   by a timer never carries the title and document that the last successful
   save of the session has already persisted; in particular none is sent
   after a manual save has succeeded and before a further change. *)
C21_NoRedundantAutosave ==
    [][ \A s \in autosavesStarted :
          [title |-> s.title, snapshot |-> s.snapshot] # persisted ]_vars

(* C28: within one editor session at most one save request is in flight at
   any time: no timer and no click starts a PATCH while an earlier PATCH of
   the session has not been answered. *)
C28_OneSaveInFlight == Cardinality(fetches) <= 1

(* C29: the unsaved-changes flag is truthful: whenever the mounted page shows
   no unsaved changes and no save is in flight, the title and document last
   persisted by the session are the page's current title and document. *)
C29_FlagTruthful ==
    page.mounted /\ ~page.hasUnsavedChanges /\ fetches = {} => persisted = current

(* C22: a comment is created only while its project is published, also when
   the Comment Create is handled concurrently with the owner's TogglePublish
   or Update: a step that inserts a comment row finds the project's stored
   published flag true. *)
C22_InsertOnlyWhilePublished ==
    [][ \A c \in comments' \ comments :
          c.projectId \in DOMAIN projects /\ projects[c.projectId].published ]_vars

(* C23: viewing is public: an unauthenticated visitor who navigates to
   /view/{id} of a published project is answered with the view page, whose
   project and comment requests are answered 200, and is never redirected. *)
C23_ViewIsPublic ==
    /\ Sent("/view/[id]") /\ resp.caller = NoUser /\ resp.id \in DOMAIN projects
         /\ projects[resp.id].published
       => resp.status = 200
    /\ Sent("project.GET") /\ resp.caller = NoUser /\ resp.id \in DOMAIN projects
         /\ projects[resp.id].published
       => resp.status = 200
    /\ Sent("comments.GET") /\ resp.caller = NoUser /\ resp.id \in DOMAIN projects
         /\ projects[resp.id].published
       => resp.status = 200

\* C24: the thumbnailUrl in a 201 response of Create is the thumbnailUrl the
\* project's stored row holds when the response is sent, also when the upload
\* succeeded and the Document Store write that follows it failed
C24_ResponseMatchesStored ==
    Sent("projects.POST") /\ resp.status = 201
        => /\ resp.id \in DOMAIN projects
           /\ resp.data[1].thumbnailUrl = projects[resp.id].thumbnailUrl

\* C25: when no request is being handled, every project's non-null
\* thumbnailUrl names an object the Thumbnail Store holds, whichever single
\* store calls of the Creates, Updates and Deletes before have failed
C25_NoDanglingThumbnail ==
    (\A r \in Reqs : req[r].pc = "idle")
        => \A id \in DOMAIN projects :
             projects[id].thumbnailUrl # NoUrl => projects[id].thumbnailUrl \in blobs

\* C26: when no store call fails and no request is being handled, every
\* object the Thumbnail Store holds is the thumbnailUrl of an existing
\* project, however the Updates and Deletes before were interleaved
C26_NoOrphanedThumbnail ==
    (\A r \in Reqs : req[r].pc = "idle")
        => \A url \in blobs :
             \E id \in DOMAIN projects : projects[id].thumbnailUrl = url

\* C27: no toggle is lost: when two TogglePublish calls on a project, however
\* interleaved, have both written with no other write of the project in
\* between and the second is answered 200, the stored flag is the initial
\* value flipped twice, and the response reports the value its write stored
C27_NoToggleLost ==
    (/\ Sent("publish.POST") /\ resp.status = 200
     /\ resp.id \in DOMAIN flipped /\ Len(flipped[resp.id]) = 2)
        => /\ projects[resp.id].published = flipped[resp.id][1]
           /\ resp.data[1].published = projects[resp.id].published

\* C30: the implicit user upsert never blocks a valid write: a Create by an
\* authenticated caller with a title and a snapshot, and a Comment Create by
\* an authenticated caller with non-blank content on a published project, are
\* answered 201 whatever the caller's identity attributes (no email address
\* included) and whatever other User records exist
C30_UpsertNeverBlocks ==
    /\ (Sent("projects.POST") /\ resp.caller # NoUser /\ ~missingFields(resp.body))
          => resp.status = 201
    /\ (/\ Sent("comments.POST") /\ resp.caller # NoUser
        /\ ~missingComment(resp.id, resp.body)
        /\ resp.id \in DOMAIN projects /\ projects[resp.id].published)
          => resp.status = 201

==============================================================================
